---- MODULE Spec2Model ----
(***************************************************************************)
(* Point-cloud registration (ICP), filtering and placement of a            *)
(* reconstructed model, after                                              *)
(*   reconstruction/components/point_cloud.py  (PointCloud)                *)
(*   reconstruction/components/model.py        (ReconModel)                *)
(*   reconstruction/components/camera.py       (ReconCamera)               *)
(*   reconstruction/manager.py                 (ReconstructionsManager)    *)
(*   operators/threaded_operator.py, align_reconstruction.py,              *)
(*   run_pipelines.py, evaluate_reconstruction.py, filter_reconstruction.py *)
(*                                                                         *)
(* Geometry is the one-dimensional analogue of the source's: a point is an *)
(* integer coordinate, a homogeneous point is (x, 1), a 4x4 matrix becomes *)
(* the 2x2 homogeneous matrix <<a, b, c, d>> = [[a, b], [c, d]].  Matrix   *)
(* product, homogeneous normalisation and nearest-neighbour distance are   *)
(* computed, not assumed.  A float is a fraction <<num, den>>, den >= 0,   *)
(* and <<1, 0>> is float('inf').  Lengths are counted in units of 0.00005, *)
(* so that improvements of the error below and above 0.0001 both occur.    *)
(***************************************************************************)
EXTENDS Integers, Sequences, FiniteSets, TLC

(* ---------------------------------------------------------------- bounds *)
\* largest max_iterations a caller gives explicitly
MaxIter == 2

(* ---------------------------------------------------------------- floats *)
Inf == <<1, 0>>
F(n) == <<n, 1>>
FLess(a, b) == a[1] * b[2] < b[1] * a[2]
FLeq(a, b) == ~FLess(b, a)
\* a - b for a finite b; inf - b = inf
FSub(a, b) == IF a[2] = 0 THEN Inf ELSE <<a[1] * b[2] - b[1] * a[2], a[2] * b[2]>>

\* the improvement below which the ICP loop stops: 0.0001, which is 2 of
\* the length units of this model (one unit is 0.00005)
EpsilonUnits == 2
Epsilon == F(EpsilonUnits)

(* -------------------------------------------------------------- matrices *)
Identity == <<1, 0, 0, 1>>
Translation(t) == <<1, t, 0, 1>>
\* Translation(t).inverted()
TranslationInverted(t) == <<1, -t, 0, 1>>
\* A @ B
MatMul(A, B) ==
    <<A[1] * B[1] + A[2] * B[3], A[1] * B[2] + A[2] * B[4],
      A[3] * B[1] + A[4] * B[3], A[3] * B[2] + A[4] * B[4]>>

\* exact quotient by the homogeneous coordinate (w is 1 or -1 for the
\* matrices of this model)
Quot(n, w) == IF w = 1 THEN n ELSE IF w = -1 THEN -n ELSE n \div w

\* one row of PointCloud.transform: v_new = m @ (x, 1); x / w
transform_point(x, m) == Quot(m[1] * x + m[2], m[3] * x + m[4])

\* PointCloud.transform: a transformed copy of the vertices
transform(vs, m) == [i \in 1..Len(vs) |-> transform_point(vs[i], m)]

(* ---------------------------------------------------------------- KDTree *)
Abs(x) == IF x < 0 THEN -x ELSE x

\* KDTree.find(v): nearest stored point, its index and the distance
kdtree_find(gt, v) ==
    LET best == CHOOSE i \in 1..Len(gt) :
                   \A j \in 1..Len(gt) :
                      \/ Abs(gt[i] - v) < Abs(gt[j] - v)
                      \/ (Abs(gt[i] - v) = Abs(gt[j] - v) /\ i <= j)
    IN  [co |-> gt[best], index |-> best, dist |-> Abs(gt[best] - v)]

\* ReconstructionsManager.gt_points, the ground-truth cloud
GtPoints == <<1, 6>>

(* ------------------------------------------------------------ PointCloud *)
RECURSIVE SeqSum(_)
SeqSum(s) == IF s = <<>> THEN 0 ELSE s[1] + SeqSum(Tail(s))

RECURSIVE masked(_, _, _)
\* self.vertices[mask], mask false at the discarded indices
masked(vs, discard, i) ==
    IF i > Len(vs) THEN <<>>
    ELSE (IF i \in discard THEN <<>> ELSE <<vs[i]>>) \o masked(vs, discard, i + 1)

SeqToSet(s) == {s[i] : i \in 1..Len(s)}

\* PointCloud.vertices_filtered
vertices_filtered(vs, discard) == masked(vs, SeqToSet(discard), 1)


\* a distance test that also discards a point exactly at the threshold
is_at_least(dist, distance_threshold) == FLeq(distance_threshold, F(dist))

\* a distance test turned round: it discards the points that are close
is_too_close(dist, distance_threshold) == FLess(F(dist), distance_threshold)

\* the test of line 233: kdtree.find(v)[2] > distance_threshold
is_too_far(dist, distance_threshold) == FLess(distance_threshold, F(dist))

RECURSIVE to_delete_from(_, _, _, _)
\* the loop of lines 231-234 over enumerate(src), from index i on
to_delete_from(srcv, gt, distance_threshold, i) ==
    IF i > Len(srcv) THEN <<>>
    ELSE (IF is_too_far(kdtree_find(gt, srcv[i]).dist, distance_threshold)
          THEN <<i>> ELSE <<>>)
         \o to_delete_from(srcv, gt, distance_threshold, i + 1)

\* a filter that walks the cloud left by the previous filter, not the
\* whole cloud
filter_only_remaining(vs, discard, gt, initial_align, distance_threshold) ==
    [discard_vertices |->
        to_delete_from(transform(vertices_filtered(vs, discard), initial_align),
                       gt, distance_threshold, 1),
     filter_distance |-> distance_threshold]

\* PointCloud.filter_point_cloud: the new (_discard_vertices, _filter_distance);
\* the old list is cleared and then replaced by to_delete
filter_point_cloud(vs, discard, gt, initial_align, distance_threshold) ==
    [discard_vertices |->
        to_delete_from(transform(vs, initial_align), gt, distance_threshold, 1),
     filter_distance |-> distance_threshold]

\* PointCloud.has_filtered_cloud: the list exists and is not empty
has_filtered_cloud(discard) == Len(discard) # 0

\* PointCloud.clear_filtered_cloud
clear_filtered_cloud == [discard_vertices |-> <<>>, filter_distance |-> Inf]

(* ------------------------------------------------------------------- ICP *)
\* a clamp that forgets the "samples <= 0" half of the test
clamp_only_above(requested, available) ==
    IF requested > available THEN available ELSE requested

\* lines 289-291: the number of samples used
clamp_samples(requested, available) ==
    IF requested <= 0 \/ requested > available THEN available ELSE requested

\* a loop guard that is off by one
icp_continue_off_by_one(iter, max_iter) == iter <= max_iter

\* line 299: while current_iter < max_iterations
icp_continue(iter, max_iter) == iter < max_iter

FAbs(a) == <<Abs(a[1]), a[2]>>

\* a stop test on the size of the change, whatever its sign
change_is_small(prev, mean) == FLess(FAbs(FSub(prev, mean)), Epsilon)

\* line 309: (previous_error - mean_error) < 0.0001
best_alignment_reached(prev, mean) == FLess(FSub(prev, mean), Epsilon)

\* the sampled indices in some order
sample_order(S) ==
    CHOOSE q \in [1..Cardinality(S) -> S] :
        \A a, b \in 1..Cardinality(S) : a # b => q[a] # q[b]

\* np.mean of the distances of the sampled points to their nearest target
mean_distance(srcv, gt, S) ==
    LET idx == sample_order(S)
        ds == [k \in 1..Cardinality(S) |-> kdtree_find(gt, srcv[idx[k]]).dist]
    IN  <<SeqSum(ds), Cardinality(S)>>

\* the outcome of a call: a value, or a raised exception
Returned(v) == [ok |-> TRUE, value |-> v]
Raised(e) == [ok |-> FALSE, error |-> e]

\* d = src.shape[1] for the homogeneous points (x, 1) that the loop hands over
HomogeneousSize == 2

\* component c of the homogeneous point (x, 1)
homogeneous(x, c) == IF c = 1 THEN x ELSE 1

\* lines 339-345: H = src_c.T @ trg_c, times n * n to stay in the integers:
\* entry (i, j) is the sum over the pairs of (n src - sum src)_i (n trg - sum trg)_j
cross_covariance(srcs, trgs) ==
    LET n == Len(srcs)
        csum(ps, c) == SeqSum([k \in 1..n |-> homogeneous(ps[k], c)])
        entry(i, j) ==
            SeqSum([k \in 1..n |->
                (n * homogeneous(srcs[k], i) - csum(srcs, i))
              * (n * homogeneous(trgs[k], j) - csum(trgs, j))])
    IN  <<entry(1, 1), entry(1, 2), entry(2, 1), entry(2, 2)>>

\* line 346: u and vh are a singular value decomposition of H when
\* u @ diag(s) @ vh = H for singular values s >= 0.  For the H of homogeneous
\* points, whose last row and column are 0, u and vh are diagonal matrices
\* of signs and the last singular value is 0.
is_svd(H, u, vh) ==
    /\ H[2] = 0 /\ H[3] = 0 /\ H[4] = 0
    /\ u[1] * Abs(H[1]) * vh[1] = H[1]

\* line 347: R = vh.T @ u.T, for diagonal u and vh
rotation_of(u, vh) == MatMul(vh, u)

\* np.linalg.det
det(m) == m[1] * m[4] - m[2] * m[3]

\* line 349: vh[row, :] *= -1., rows counted from 0
negate_row(vh, row) ==
    IF row = 0 THEN <<-vh[1], -vh[2], vh[3], vh[4]>>
    ELSE <<vh[1], vh[2], -vh[3], -vh[4]>>

\* lines 347-350: the rotation, and the correction of a reflection
corrected_rotation(u, vh, d) ==
    IF det(rotation_of(u, vh)) < 0
    THEN rotation_of(u, negate_row(vh, d - 1))
    ELSE rotation_of(u, vh)

\* a fit that rejects fewer than three correspondences
fit_rejects_below_three(srcs, trgs, R, t, w) ==
    IF Len(srcs) < 3 THEN Raised("DegenerateInputError") ELSE Returned(<<R, t, 0, w>>)

\* PointCloud.find_fit_transform on the paired points srcs, trgs.  R stands
\* for the rotation block the SVD yields, t for the translation between the
\* centroids and w for the bottom-right entry of the corrected matrix; the
\* function checks nothing about the number of pairs.  T is the corrected
\* matrix with t written over its last column
find_fit_transform(srcs, trgs, R, t, w) == Returned(<<R, t, 0, w>>)

\* an aggregation step that multiplies on the wrong side
aggregate_step_reversed(am, t) == MatMul(am, t)

\* the lambda of line 323: lambda am, t: t @ am
aggregate_step(am, t) == MatMul(t, am)

RECURSIVE reduce_from(_, _)
reduce_from(am, ts) ==
    IF ts = <<>> THEN am ELSE reduce_from(aggregate_step(am, ts[1]), Tail(ts))

\* functools.reduce without an initial value
reduce_transforms(ts) ==
    IF ts = <<>> THEN Raised("TypeError")
    ELSE Returned(reduce_from(ts[1], Tail(ts)))

\* a return of the error computed last instead of the accepted one
icp_return_last_mean(am, prev, mean) == [matrix |-> am, error |-> mean]

\* line 324: return align_matrix, previous_error
icp_return(am, prev, mean) == [matrix |-> am, error |-> prev]

(* ------------------------------------------------------------ ReconModel *)
\* a registration applied on the wrong side of the placement
apply_on_the_right(matrix, mw) == MatMul(mw, matrix)

\* ReconModel.apply_registration_matrix: the new matrix_world
apply_registration_matrix(matrix, mw) == MatMul(matrix, mw)

\* lines 123 and 162: matrix_world @ _initial_centroid_matrix
initial_align_matrix(mw, icm) == MatMul(mw, icm)

(* -------------------------------------------------------- register_model *)
\* line 127: the least number of samples and the quarter of the cloud
MinSamples == 10000
QuarterPercent == 25
\* lines 129 and 133: percent and the iterations per sample
Hundred == 100

Max(a, b) == IF a > b THEN a ELSE b

\* lines 125-129: the samples handed to get_regsitration_to_target; "not
\* samples" is true of None and of 0
register_samples(n, samples) ==
    IF samples = 0 THEN Max(MinSamples, (n * QuarterPercent) \div Hundred)
    ELSE (n * samples) \div Hundred

\* lines 132-133: the iterations handed to get_regsitration_to_target
register_max_iterations(max_iterations, samples) ==
    IF max_iterations = 0 THEN samples \div Hundred ELSE max_iterations

\* an absent value and a present one
None == <<>>
Some(x) == <<x>>

\* align_reconstruction.py lines 203-211: the keyword arguments of the call
\* of register_model, the defaults of its signature where none is given
register_model_call(use_custom_params, max_iterations, samples, use_filtered_cloud) ==
    IF ~use_custom_params
    THEN [max_iterations |-> 0, samples |-> 0, use_filtered_cloud |-> TRUE]
    ELSE [max_iterations |-> max_iterations, samples |-> samples,
          use_filtered_cloud |-> use_filtered_cloud]

\* SFMFLOW_OT_run_pipelines.heavy_load: the exit code and the progress
\* string it leaves and whether it ends by an exception, for a pipeline name that is known or not and an
\* environment where the set-up of the workspace or a command fails
run_pipelines_heavy_load(known, env) ==
    IF ~known THEN [exit_code |-> None, raised |-> FALSE, progress_string |-> None]
    ELSE IF env = "setup_fails"
    THEN [exit_code |-> None, raised |-> TRUE, progress_string |-> None]
    ELSE IF env = "command_fails"
    THEN [exit_code |-> Some(-1), raised |-> FALSE, progress_string |-> None]
    ELSE [exit_code |-> Some(0), raised |-> FALSE,
          progress_string |-> Some("completed correctly")]

(* ----------------------------------------------------------- draw handlers *)
\* SpaceView3D.draw_handler_remove(h): the call is counted, the handler is
\* no longer registered
draw_handler_remove(d, h) ==
    [d EXCEPT !.removes[h] = @ + 1, !.registered = @ \ {h}]

\* the handlers that can be registered at a time; removes counts the calls
\* of draw_handler_remove per handler until they exceed MaxRemoves
MaxHandlers == 2
MaxRemoves == 2

\* SpaceView3D.draw_handler_add: a new handler, under the least name that no
\* registered handler bears, and it is assigned to _draw_handler_obj
new_handler(d) ==
    CHOOSE h \in 1..MaxHandlers :
        /\ h \notin d.registered
        /\ \A g \in 1..MaxHandlers : g \notin d.registered => h <= g

draw_handler_add(d) ==
    [d EXCEPT !.draw_handler_obj = Some(new_handler(d)),
              !.registered = @ \cup {new_handler(d)},
              !.removes[new_handler(d)] = 0]

\* ReconModel.show.  The UI empty is created when there is none, which reads
\* the point cloud; the handler in _draw_handler_obj is removed; the point
\* cloud and the matrix_world of the UI empty are read, which raises when the
\* attribute was deleted and, if reference_raises, when the empty was
\* deleted; then the new handler is added
show(d, reference_raises) ==
    LET created == IF d.ui = "none" THEN [d EXCEPT !.ui = "alive"] ELSE d
        removed == IF created.draw_handler_obj # None
                   THEN draw_handler_remove(created, created.draw_handler_obj[1])
                   ELSE created
    IN  IF d.ui = "none" /\ ~d.has_point_cloud
        THEN created
        ELSE IF created.draw_handler_obj # None
                /\ created.draw_handler_obj[1] \notin created.registered
        THEN removed
        ELSE IF ~removed.has_point_cloud
        THEN removed
        ELSE IF removed.ui = "deleted" /\ reference_raises
        THEN removed
        ELSE draw_handler_add(removed)

\* ReconModel._draw_handler, for a UI handle that is visible or not: the
\* cloud is drawn or, without a handle, the model gives up its handler
draw_handler(d, visible) ==
    IF d.draw_handler_obj = None THEN d
    ELSE IF d.ui = "alive" THEN d
    ELSE [draw_handler_remove([d EXCEPT !.ui = "none", !.draw_handler_obj = None,
                                        !.has_point_cloud = FALSE],
                              d.draw_handler_obj[1])
            EXCEPT !.is_removed = TRUE]

\* ReconModel.free
free(d) ==
    IF d.draw_handler_obj = None THEN [d EXCEPT !.freed = TRUE]
    ELSE draw_handler_remove([d EXCEPT !.draw_handler_obj = None, !.freed = TRUE],
                             d.draw_handler_obj[1])

(* -------------------------------------------------------------- callbacks *)
\* lines 44-47: the motion path is to be shown
show_motion_path(c) ==
    c.is_show_camera_pose /\ c.frame_start # c.frame_end /\ c.camera_selected

\* Callbacks.cam_pose_update on the scene in c: the flag and the motion path
\* it leaves, and whether the update was processed or skipped
cam_pose_update(c) ==
    IF c.is_cam_pose_updating THEN [c EXCEPT !.last = "skipped"]
    ELSE IF ~c.camera
    THEN [c EXCEPT !.is_cam_pose_updating = TRUE, !.last = "processed"]
    ELSE [c EXCEPT !.is_cam_pose_updating = FALSE,
                   !.motion_path =
                       IF show_motion_path(c)
                       THEN (IF c.motion_path = "none" THEN "calculated" ELSE "updated")
                       ELSE "none",
                   !.last = "processed"]

(* ------------------------------------------------------------------ modal *)
\* line 67: the TIMER events the status text outlives the thread by
DelayTicks == 10

\* a handler that reports the error at every event until the status is cleared
modal_reports_every_tick(exit_code, u) ==
    LET shown == IF u.progress_string # None
                 THEN [u EXCEPT !.status_text = u.progress_string[1]] ELSE u
    IN  IF exit_code = None THEN [exit_code |-> exit_code, ui |-> shown]
        ELSE IF shown.delay_counter > DelayTicks
        THEN [exit_code |-> None,
              ui |-> [shown EXCEPT !.progress_string = None, !.delay_counter = 0 + 1,
                                   !.timer = FALSE, !.status_text = "",
                                   !.clears = @ + 1]]
        ELSE IF exit_code # Some(0)
        THEN [exit_code |-> exit_code,
              ui |-> [shown EXCEPT !.reports = @ + 1, !.delay_counter = @ + 1]]
        ELSE [exit_code |-> exit_code, ui |-> [shown EXCEPT !.delay_counter = @ + 1]]

\* ThreadedOperator.modal on a TIMER event, lines 64-77: the exit code and
\* the fields of u it leaves; reports and clears count the calls of
\* self.report and of status_text_set("")
modal(exit_code, u) ==
    LET shown == IF u.progress_string # None
                 THEN [u EXCEPT !.status_text = u.progress_string[1]] ELSE u
    IN  IF exit_code = None THEN [exit_code |-> exit_code, ui |-> shown]
        ELSE IF shown.delay_counter > DelayTicks
        THEN [exit_code |-> None,
              ui |-> [shown EXCEPT !.progress_string = None, !.delay_counter = 0 + 1,
                                   !.timer = FALSE, !.status_text = "",
                                   !.clears = @ + 1]]
        ELSE IF shown.delay_counter = 0 /\ exit_code # Some(0)
        THEN [exit_code |-> exit_code,
              ui |-> [shown EXCEPT !.reports = @ + 1, !.delay_counter = @ + 1]]
        ELSE [exit_code |-> exit_code, ui |-> [shown EXCEPT !.delay_counter = @ + 1]]

(* ---------------------------------------------------------------- manager *)
\* lines 51-54: the KDTree of the points, each inserted with its index
build_kdtree(points) ==
    [i \in 1..Len(points) |-> [co |-> points[i], index |-> i - 1]]

\* ReconstructionsManager.set_gt_points: the new (gt_points, gt_kdtree), the
\* tree being rebuilt only when the points are not None
set_gt_points(points, tree) ==
    [gt_points |-> points,
     gt_kdtree |-> IF points # None THEN Some(build_kdtree(points[1])) ELSE tree]

\* ReconModel.__init__: a model in use; uuid1 is a number here
Model(uuid) == [uuid |-> uuid, is_removed |-> FALSE]

in_use(model) == ~model.is_removed
has_models(recon) == recon # <<>>

\* ReconstructionBase.unload_deleted: the models that are left
recon_unload_deleted(models) == SelectSeq(models, in_use)

\* ReconstructionsManager.unload_deleted: every reconstruction drops its
\* flagged models, the reconstructions left without a model are removed
unload_deleted(recons) ==
    SelectSeq([i \in 1..Len(recons) |-> recon_unload_deleted(recons[i])], has_models)

\* the loops of lines 99-102: the first model with the uuid, or None
find_by_uuid(recons, uuid) ==
    LET places == UNION {{<<i, j>> : j \in 1..Len(recons[i])} : i \in 1..Len(recons)}
        hits == {h \in places : recons[h[1]][h[2]].uuid = uuid}
        first == CHOOSE h \in hits :
                    \A g \in hits : h[1] < g[1] \/ (h[1] = g[1] /\ h[2] <= g[2])
    IN  IF hits = {} THEN None ELSE Some(recons[first[1]][first[2]])

\* ReconstructionsManager.get_model_by_uuid: the reconstructions it leaves
\* and what it returns
get_model_by_uuid(recons, uuid) ==
    [reconstructions |-> unload_deleted(recons),
     result |-> find_by_uuid(unload_deleted(recons), uuid)]

(* ------------------------------------------------------------- add_point *)
\* an add_point that moves the fill position before it tests it
add_point_counts_first(pcount, last, vs, position) ==
    IF last + 1 >= pcount
    THEN [outcome |-> Raised("RuntimeError"),
          last_point_set |-> last + 1, vertices |-> vs]
    ELSE [outcome |-> Returned("None"),
          last_point_set |-> last + 1,
          vertices |-> [vs EXCEPT ![last + 2] = position]]

\* PointCloud.add_point: the outcome and the new (_last_point_set, vertices);
\* row i of the array is element i + 1 of the sequence
add_point(pcount, last, vs, position) ==
    IF last + 1 >= pcount
    THEN [outcome |-> Raised("RuntimeError"),
          last_point_set |-> last, vertices |-> vs]
    ELSE [outcome |-> Returned("None"),
          last_point_set |-> last + 1,
          vertices |-> [vs EXCEPT ![last + 2] = position]]

(* ------------------------------------------------------------ evaluation *)
\* statistics.mean: an empty list raises StatisticsError
statistics_mean(d) ==
    IF d = <<>> THEN Raised("StatisticsError")
    ELSE Returned(<<SeqSum(d), Len(d)>>)

\* the square of statistics.stdev(d, mean), taken only when len(d) > 1
stdev_squared(d) ==
    IF Len(d) > 1
    THEN <<SeqSum([i \in 1..Len(d) |->
                     (Len(d) * d[i] - SeqSum(d)) * (Len(d) * d[i] - SeqSum(d))]),
           Len(d) * Len(d) * (Len(d) - 1)>>
    ELSE F(0)

\* min(d) and max(d) of a list that is not empty
seq_min(d) == CHOOSE x \in SeqToSet(d) : \A y \in SeqToSet(d) : x <= y
seq_max(d) == CHOOSE x \in SeqToSet(d) : \A y \in SeqToSet(d) : y <= x

\* the distances of line 431
distances(srcv, gt) == [i \in 1..Len(srcv) |-> kdtree_find(gt, srcv[i]).dist]

\* an evaluation that measures the filtered cloud whatever it is asked
evaluate_always_filtered(vs, discard, fd, gt, placement, use_filtered_cloud) ==
    LET srcv == transform(vertices_filtered(vs, discard), placement)
        d == distances(srcv, gt)
    IN  IF ~statistics_mean(d).ok THEN statistics_mean(d)
        ELSE Returned([dist_mean |-> statistics_mean(d).value,
                       dist_std_squared |-> stdev_squared(d),
                       dist_min |-> seq_min(d),
                       dist_max |-> seq_max(d),
                       used_filtered_cloud |-> use_filtered_cloud,
                       filter_threshold |-> fd,
                       full_cloud_size |-> Len(vs),
                       used_cloud_size |-> Len(srcv),
                       used_cloud_size_percent |-> <<Len(srcv), Len(vs)>>,
                       discarded_points |-> Len(vs) - Len(srcv)])

\* an evaluation that reports zeros for a cloud with no points
evaluate_zeros_when_empty(vs, discard, fd, gt, placement, use_filtered_cloud) ==
    LET src_pc == IF use_filtered_cloud THEN vertices_filtered(vs, discard) ELSE vs
        srcv == transform(src_pc, placement)
        d == distances(srcv, gt)
    IN  Returned([dist_mean |-> IF d = <<>> THEN F(0) ELSE statistics_mean(d).value,
                  dist_std_squared |-> stdev_squared(d),
                  dist_min |-> IF d = <<>> THEN 0 ELSE seq_min(d),
                  dist_max |-> IF d = <<>> THEN 0 ELSE seq_max(d),
                  used_filtered_cloud |-> use_filtered_cloud,
                  filter_threshold |-> IF use_filtered_cloud THEN fd ELSE Inf,
                  full_cloud_size |-> Len(vs),
                  used_cloud_size |-> Len(srcv),
                  used_cloud_size_percent |-> <<Len(srcv), Len(vs)>>,
                  discarded_points |-> Len(vs) - Len(srcv)])

\* PointCloud.evaluate: the result dictionary, or the exception of statistics_mean(d)
evaluate(vs, discard, fd, gt, placement, use_filtered_cloud) ==
    LET src_pc == IF use_filtered_cloud THEN vertices_filtered(vs, discard) ELSE vs
        srcv == transform(src_pc, placement)
        d == distances(srcv, gt)
    IN  IF ~statistics_mean(d).ok THEN statistics_mean(d)
        ELSE Returned([dist_mean |-> statistics_mean(d).value,
                       dist_std_squared |-> stdev_squared(d),
                       dist_min |-> seq_min(d),
                       dist_max |-> seq_max(d),
                       used_filtered_cloud |-> use_filtered_cloud,
                       filter_threshold |-> IF use_filtered_cloud THEN fd ELSE Inf,
                       full_cloud_size |-> Len(vs),
                       used_cloud_size |-> Len(srcv),
                       used_cloud_size_percent |-> <<Len(srcv), Len(vs)>>,
                       discarded_points |-> Len(vs) - Len(srcv)])


\* ReconCamera: the frame number of its image and its reconstructed position
Camera(frame_number, position) ==
    [frame_number |-> frame_number, position |-> position]

\* the ground truth: the position of the render camera at frame f
GtCameraPosition(f) == f

\* ReconCamera.evaluate: position_distance, the reconstructed position being
\* the translation of _object_matrix @ _initial_centroid_matrix @ _recon_matrix_world
camera_evaluate(c, placement) ==
    Abs(GtCameraPosition(c.frame_number) - transform_point(c.position, placement))

\* cosines are counted in thousandths: 1.0 and the 1.1 of line 207
CosOne == 1000
CosUpper == 1100
\* what the rounding of the division of line 206 adds or takes away
RoundingError == 1

\* lines 207-208: the correction of the rounding error
clamp_cos(cos_theta) ==
    IF cos_theta > CosOne /\ cos_theta < CosUpper THEN CosOne ELSE cos_theta

\* math.acos, then math.degrees: a ValueError outside [-1, 1], degrees
\* falling from 180 at -1 over 90 at 0 to 0 at 1
acos_degrees(x) ==
    IF x < -CosOne \/ x > CosOne THEN Raised("ValueError")
    ELSE Returned(90 - (90 * x) \div CosOne)

\* ReconCamera.evaluate for the cosine the division of line 206 yields
camera_evaluate_lookat(c, placement, cos_theta) ==
    LET theta == acos_degrees(clamp_cos(cos_theta))
    IN  IF ~theta.ok THEN theta
        ELSE Returned([position_distance |-> camera_evaluate(c, placement),
                       lookat_difference_deg |-> theta.value])

\* line 301: the number of ground truth cameras
gt_camera_count(scene) ==
    (scene.frame_end - scene.frame_start + 1) \div scene.frame_step

\* camera statistics that are zeros when no camera was reconstructed
cameras_zeros_when_none(cams, placement, scene) ==
    LET d == [i \in 1..Len(cams) |-> camera_evaluate(cams[i], placement)]
    IN  IF gt_camera_count(scene) = 0 THEN Raised("ZeroDivisionError")
        ELSE Returned([pos_mean |-> IF d = <<>> THEN F(0) ELSE statistics_mean(d).value,
                       pos_std_squared |-> stdev_squared(d),
                       pos_min |-> IF d = <<>> THEN 0 ELSE seq_min(d),
                       pos_max |-> IF d = <<>> THEN 0 ELSE seq_max(d),
                       camera_count |-> gt_camera_count(scene),
                       reconstructed_camera_count |-> Len(cams),
                       reconstructed_camera_percent |->
                           <<Len(cams), gt_camera_count(scene)>>])

\* lines 295-321 of ReconModel.evaluate: the camera poses evaluation
cameras_evaluate(cams, placement, scene) ==
    LET d == [i \in 1..Len(cams) |-> camera_evaluate(cams[i], placement)]
    IN  IF ~statistics_mean(d).ok THEN statistics_mean(d)
        ELSE IF gt_camera_count(scene) = 0 THEN Raised("ZeroDivisionError")
        ELSE Returned([pos_mean |-> statistics_mean(d).value,
                       pos_std_squared |-> stdev_squared(d),
                       pos_min |-> seq_min(d),
                       pos_max |-> seq_max(d),
                       camera_count |-> gt_camera_count(scene),
                       reconstructed_camera_count |-> Len(cams),
                       reconstructed_camera_percent |->
                           <<Len(cams), gt_camera_count(scene)>>])

\* ReconModel.evaluate: the point cloud first, then the cameras
model_evaluate(vs, discard, fd, gt, cams, placement, scene, use_filtered_cloud) ==
    LET pc_result == evaluate(vs, discard, fd, gt, placement, use_filtered_cloud)
        cam_result == cameras_evaluate(cams, placement, scene)
    IN  IF ~pc_result.ok THEN pc_result
        ELSE IF ~cam_result.ok THEN cam_result
        ELSE Returned([pc |-> pc_result.value, cam |-> cam_result.value])

(* ----------------------------------------------------------------- state *)
VARIABLES
    vertices,                 \* PointCloud.vertices
    discard_vertices,         \* PointCloud._discard_vertices
    filter_distance,          \* PointCloud._filter_distance
    matrix_world,             \* ReconModel._ui_control_empty.matrix_world
    initial_centroid_matrix,  \* ReconModel._initial_centroid_matrix
    pc,                       \* position of the alignment call
    args,                     \* arguments of the running alignment call
    initial_alignment,        \* get_regsitration_to_target: initial_alignment
    src_pc,                   \* ... src_pc, the working cloud as selected
    src,                      \* ... src, the working copy
    samples,                  \* ... samples after the clamp
    current_iter,             \* ... current_iter
    previous_error,           \* ... previous_error
    mean_error,               \* ... mean_error of the last iteration
    transforms,               \* ... transforms
    outcome,                  \* what the call returned or raised
    accepted,                 \* history: values assigned to previous_error
    sampled,                  \* history: points sampled per iteration
    last_op,                  \* history: the last operation and its inputs
    cameras,                  \* ReconModel.cameras
    evaluation,               \* the last evaluation: its arguments and outcome
    point_count,              \* PointCloud.point_count
    last_point_set,           \* PointCloud._last_point_set
    written,                  \* history: the indices add_point wrote, in order
    add_point_outcome,        \* what the last add_point returned or raised
    op,                       \* the threaded operator that was executed last
    op2,                      \* a second align operator, executed after it
    reconstructions,          \* ReconstructionsManager.reconstructions
    gt_points,                \* ReconstructionsManager.gt_points
    gt_kdtree,                \* ReconstructionsManager.gt_kdtree
    fit,                      \* the last call of the rotation fit on its own
    camera_result,            \* the last call of ReconCamera.evaluate on its own
    registration,             \* the limits the last register_model handed to the alignment
    ui,                       \* the operator's timer, progress and delay, and the status bar
    lookup,                   \* the manager call made last, its result and the models created
    draw,                     \* ReconModel: the UI handle, the draw handlers and is_removed
    callbacks                 \* Callbacks._is_cam_pose_updating and the scene its callback sees

cloud == <<vertices, initial_centroid_matrix>>
filt == <<discard_vertices, filter_distance>>
icp == <<args, initial_alignment, src_pc, src, samples, current_iter,
         previous_error, mean_error, transforms, accepted, sampled>>
load == <<point_count, last_point_set, written, add_point_outcome>>
manager == <<reconstructions, gt_points, gt_kdtree>>
extra == <<fit, camera_result, registration, ui, lookup, draw, callbacks>>
but_fit == <<camera_result, registration, ui, lookup, draw, callbacks>>
but_camera_result == <<fit, registration, ui, lookup, draw, callbacks>>
but_registration == <<fit, camera_result, ui, lookup, draw, callbacks>>
but_ui == <<fit, camera_result, registration, lookup, draw, callbacks>>
but_lookup == <<fit, camera_result, registration, ui, draw, callbacks>>
but_draw == <<fit, camera_result, registration, ui, lookup, callbacks>>
but_callbacks == <<fit, camera_result, registration, ui, lookup, draw>>
rest == <<cameras, evaluation, load, op, op2, manager, extra>>
vars == <<vertices, discard_vertices, filter_distance, matrix_world,
          initial_centroid_matrix, pc, args, initial_alignment, src_pc, src,
          samples, current_iter, previous_error, mean_error, transforms,
          outcome, accepted, sampled, last_op, cameras, evaluation,
          point_count, last_point_set, written, add_point_outcome, op,
          op2, reconstructions, gt_points, gt_kdtree, fit,
          camera_result,
          registration,
          ui,
          lookup,
          draw,
          callbacks>>

(* ---------------------------------------------------------------- inputs *)
\* the reconstructed clouds; their centroid np.mean is a grid point
Clouds == {<<6>>, <<0, 6>>, <<0, 0, 6>>}
\* PointCloud.center
center(vs) == SeqSum(vs) \div Len(vs)
\* placements the user gives the UI empty, relative to the first one
UserPlacements == {Translation(1), Translation(-2), <<-1, 4, 0, 1>>}
\* distance thresholds of the filter operator (FloatProperty, min 0.0)
Thresholds == {F(0), F(1), F(2)}
\* what the fit can yield: R = 1 or the reflection R = -1, t a translation
FitRotations == {1, -1}
FitTranslations == {-1, 1}
\* the bottom-right entry that comes with a block: the corrected matrix has
\* determinant +1, so the entry is the determinant of the block.  The block
\* -1 stands for the rotations of the source's three dimensions that do not
\* commute with translations, proper ones and improper ones
BottomRight(R) == IF R = 1 THEN {1} ELSE {1, -1}

\* the cameras of the imported reconstructions
CameraSets == {<<>>, <<Camera(1, 0)>>, <<Camera(1, 0), Camera(3, 5)>>}
\* frame ranges of the scene: 4, 2 and 0 ground truth cameras
Scenes == {[frame_start |-> 1, frame_end |-> 4, frame_step |-> 1],
           [frame_start |-> 1, frame_end |-> 4, frame_step |-> 2],
           [frame_start |-> 1, frame_end |-> 2, frame_step |-> 3]}
NoEvaluation ==
    [use_filtered_cloud |-> FALSE, scene |-> [frame_start |-> 1, frame_end |-> 1, frame_step |-> 1],
     outcome |-> Raised("none")]

\* the values of the operator's properties
IterationOptions == {1, MaxIter}
Percentages == {1, 75, 100}
AlignmentModes == {"cloud_align.auto", "cloud_align.matrix"}
AlignmentMatrices == {Translation(1)}
Environments == {"ok", "command_fails", "setup_fails"}
\* ThreadedOperator.__init__: no thread, exit_code None
NoOperator ==
    [kind |-> "none", alignment_mode |-> "cloud_align.auto",
     alignment_matrix |-> Identity, use_custom_params |-> FALSE,
     use_filtered_cloud |-> TRUE, max_iterations |-> 1,
     samples_percentage |-> 75, model_found |-> TRUE, known |-> TRUE,
     thread |-> "none", exit_code |-> None]

\* the second operator before it is executed
NoSecond == [thread |-> "none", initial_alignment |-> Identity]

\* no camera was evaluated on its own
NoCameraResult ==
    [done |-> FALSE, camera |-> Camera(1, 0), cos_theta |-> 0,
     outcome |-> Raised("none")]
\* the cosines of look-at vectors that are parallel, orthogonal or opposite,
\* exact or off by the rounding error
Cosines == {-CosOne - RoundingError, -CosOne, -CosOne + RoundingError, 0,
            CosOne - RoundingError, CosOne, CosOne + RoundingError}
Frames == 1..4
CameraPositions == 0..4

\* register_model was not called on its own
NoRegistration ==
    [done |-> FALSE, size |-> 0, max_iterations_arg |-> 0, samples_arg |-> 0,
     samples |-> 0, max_iterations |-> 0]
\* len(self.point_cloud.vertices): clouds of up to 120000 points
SizeStep == 4000
SizeSteps == 30
CloudSizes == {3} \cup {k * SizeStep : k \in 0..SizeSteps}

\* ThreadedOperator.__init__ and a status bar that shows nothing; ended_with
\* is the history of the exit code heavy_load has set
NoUi ==
    [timer |-> FALSE, progress_string |-> None, delay_counter |-> 0,
     status_text |-> "", reports |-> 0, clears |-> 0, ended_with |-> None]
\* ThreadedOperator.execute: event_timer_add and modal_handler_add
StartedUi == [NoUi EXCEPT !.timer = TRUE]

\* no call of the manager was made, no model was created by an import
NoLookup ==
    [call |-> "none", uuid |-> 0, result |-> None, created |-> 0,
     thread_uuid |-> None]

\* the model after the show of its import: the UI empty exists, the first
\* handler is registered; removes counts the calls of draw_handler_remove
\* per handler, freed is the history of free
ShownModel ==
    [ui |-> "alive", draw_handler_obj |-> Some(1), registered |-> {1},
     removes |-> [h \in 1..MaxHandlers |-> 0], is_removed |-> FALSE, has_point_cloud |-> TRUE,
     freed |-> FALSE]

\* the class attribute of Callbacks and a scene with a camera that is not
\* selected; last tells what the last call of cam_pose_update did
NoCallbacks ==
    [is_cam_pose_updating |-> FALSE, camera |-> TRUE, camera_selected |-> FALSE,
     is_show_camera_pose |-> FALSE, frame_start |-> 1, frame_end |-> 1,
     motion_path |-> "none", last |-> "none"]
\* the ends of the animation the user sets
FrameEnds == {1, 4}

\* no fit was computed
NoFit == [done |-> FALSE, src |-> <<>>, trg |-> <<>>,
          first |-> Identity, returned |-> Identity]

NoArgs == [max_iterations |-> 0, samples |-> 0, use_filtered_cloud |-> FALSE]
NoOutcome == [ok |-> TRUE, value |-> [matrix |-> Identity, error |-> Inf]]
\* the last operation: its name, the threshold it was given, how many times
\* in a row it has run with that threshold, and the value it replaced (the
\* discarded list for a filter, matrix_world for the end of an alignment)
Op(name, th, streak, mw) ==
    [name |-> name, threshold |-> th, streak |-> streak, before |-> mw]

InitCloud ==
    /\ vertices \in Clouds
    /\ discard_vertices = <<>>
    /\ filter_distance = Inf
    \* ReconModel.show: the empty sits at the centroid
    /\ matrix_world = Translation(center(vertices))
    /\ initial_centroid_matrix = TranslationInverted(center(vertices))
    /\ pc = "idle"
    /\ args = NoArgs
    /\ initial_alignment = Identity
    /\ src_pc = <<>>
    /\ src = <<>>
    /\ samples = 0
    /\ current_iter = 0
    /\ previous_error = Inf
    /\ mean_error = Inf
    /\ transforms = <<>>
    /\ outcome = NoOutcome
    /\ accepted = <<>>
    /\ sampled = <<>>
    /\ last_op = Op("show", Inf, 0, Identity)

\* the state after the import of a reconstruction with one camera
\* nothing else has run yet
InitExtra ==
    /\ fit = NoFit
    /\ camera_result = NoCameraResult
    /\ registration = NoRegistration
    /\ ui = NoUi
    /\ lookup = NoLookup
    /\ draw = ShownModel
    /\ callbacks = NoCallbacks

\* the class attributes of ReconstructionsManager
InitManager ==
    /\ reconstructions = <<>>
    /\ gt_points = None
    /\ gt_kdtree = None

\* the manager after the import of one reconstruction, which sampled the
\* ground truth
InitManaged ==
    /\ reconstructions = <<<<Model(0)>>>>
    /\ gt_points = Some(GtPoints)
    /\ gt_kdtree = Some(build_kdtree(GtPoints))

\* the cloud of the import: every row was set by add_point
InitLoaded ==
    /\ point_count = Len(vertices)
    /\ last_point_set = Len(vertices) - 1
    /\ written = [i \in 1..Len(vertices) |-> i - 1]
    /\ add_point_outcome = Returned("None")

Init ==
    /\ InitCloud
    /\ cameras = <<Camera(1, 0)>>
    /\ evaluation = NoEvaluation
    /\ InitLoaded
    /\ op = NoOperator
    /\ op2 = NoSecond
    /\ InitManaged
    /\ InitExtra


(* ------------------------------------------------------ main-thread steps *)
\* The operators of the main thread run between the steps of the worker
\* thread.  The loop of the alignment touches only its own copies, so an
\* operator run during the loop is an operator run right after it: the
\* user's move is interleaved before the call and where the call reads
\* matrix_world again, the filter operators before the call.

\* the user moves the UI empty of the model
UserMove(p) ==
    /\ pc \in {"idle", "aggregate"}
    /\ matrix_world' = MatMul(p, Translation(center(vertices)))
    /\ last_op' = Op("move", Inf, 0, Identity)
    /\ UNCHANGED <<rest, cloud, filt, pc, icp, outcome>>

\* ReconModel.filter_model on the model of the active UI empty; it ends
\* with show
FilterModel(distance_threshold) ==
    LET r == filter_point_cloud(vertices, discard_vertices, GtPoints,
                 initial_align_matrix(matrix_world, initial_centroid_matrix),
                 distance_threshold)
        again == last_op.name = "filter" /\ last_op.threshold = distance_threshold
    IN  /\ pc = "idle"
        /\ draw.ui = "alive"
        /\ discard_vertices' = r.discard_vertices
        /\ filter_distance' = r.filter_distance
        /\ draw' = show(draw, FALSE)
        /\ last_op' = Op("filter", distance_threshold,
                         IF again THEN 2 ELSE 1, discard_vertices)
        /\ UNCHANGED <<cameras, evaluation, load, op, op2, manager, but_draw,
                       cloud, matrix_world, pc, icp, outcome>>

\* a clear that resets the threshold and keeps the discarded list
clear_threshold_only ==
    /\ pc = "idle"
    /\ draw.ui = "alive"
    /\ filter_distance' = Inf
    /\ draw' = show(draw, FALSE)
    /\ last_op' = Op("clear", Inf, 0, discard_vertices)
    /\ UNCHANGED <<cameras, evaluation, load, op, op2, manager, but_draw, cloud,
                   discard_vertices, matrix_world, pc, icp, outcome>>

\* ReconModel.filter_model_clear, which ends with show
FilterModelClear ==
    /\ pc = "idle"
    /\ draw.ui = "alive"
    /\ discard_vertices' = clear_filtered_cloud.discard_vertices
    /\ filter_distance' = clear_filtered_cloud.filter_distance
    /\ draw' = show(draw, FALSE)
    /\ last_op' = Op("clear", Inf, 0, discard_vertices)
    /\ UNCHANGED <<cameras, evaluation, load, op, op2, manager, but_draw, cloud,
                   matrix_world, pc, icp, outcome>>

(* ----------------------------------------------------- the alignment call *)
\* ReconModel.register_model up to the loop of get_regsitration_to_target
register_model_start(max_iterations, requested, use_filtered_cloud) ==
    /\ pc = "idle"
    /\ args' = [max_iterations |-> max_iterations, samples |-> requested,
                use_filtered_cloud |-> use_filtered_cloud]
    /\ initial_alignment' = initial_align_matrix(matrix_world, initial_centroid_matrix)
    /\ src_pc' = IF use_filtered_cloud
                 THEN vertices_filtered(vertices, discard_vertices) ELSE vertices
    /\ src' = transform(src_pc', initial_alignment')
    /\ samples' = clamp_samples(requested, Len(src'))
    /\ current_iter' = 0
    /\ previous_error' = Inf
    /\ mean_error' = Inf
    /\ transforms' = <<>>
    /\ accepted' = <<Inf>>
    /\ sampled' = <<>>
    /\ outcome' = NoOutcome
    /\ pc' = "loop"
    /\ last_op' = Op("align_start", Inf, 0, Identity)
    /\ UNCHANGED <<cameras, evaluation, load, op, op2, manager, but_ui, cloud,
                   filt, matrix_world>>

\* the call of register_model from outside an operator
AlignStart(max_iterations, requested, use_filtered_cloud) ==
    /\ register_model_start(max_iterations, requested, use_filtered_cloud)
    /\ UNCHANGED ui

\* indices[:samples] after shuffle(indices): any samples of the indices
Samplings == {S \in SUBSET (1..Len(src)) :
                 Cardinality(S) = IF samples < Len(src) THEN samples ELSE Len(src)}

\* the while test fails: the loop ends by the iteration counter
IcpLoopEnd ==
    /\ pc = "loop"
    /\ ~icp_continue(current_iter, args.max_iterations)
    /\ pc' = "aggregate"
    /\ last_op' = Op("icp", Inf, 0, Identity)
    /\ UNCHANGED <<rest, cloud, filt, matrix_world, icp, outcome>>

\* nothing to sample: zip(*[]) is empty and s[1] raises IndexError
IcpSampleRaises ==
    /\ pc = "loop"
    /\ icp_continue(current_iter, args.max_iterations)
    /\ Samplings = {{}}
    /\ sampled' = Append(sampled, 0)
    /\ outcome' = Raised("IndexError")
    /\ pc' = "raised"
    /\ last_op' = Op("icp", Inf, 0, Identity)
    /\ UNCHANGED <<rest, cloud, filt, matrix_world, args, initial_alignment, src_pc,
                   src, samples, current_iter, previous_error, mean_error,
                   transforms, accepted>>

\* an iteration that finds no improvement of 0.0001: break
IcpBreak(S) ==
    /\ pc = "loop"
    /\ icp_continue(current_iter, args.max_iterations)
    /\ S # {}
    /\ best_alignment_reached(previous_error, mean_distance(src, GtPoints, S))
    /\ mean_error' = mean_distance(src, GtPoints, S)
    /\ sampled' = Append(sampled, Cardinality(S))
    /\ pc' = "aggregate"
    /\ last_op' = Op("icp", Inf, 0, Identity)
    /\ UNCHANGED <<rest, cloud, filt, matrix_world, args, initial_alignment, src_pc,
                   src, samples, current_iter, previous_error, transforms,
                   outcome, accepted>>

\* an iteration that accepts its error, fits a transform and records it
IcpAccept(S, R, t) ==
    LET mean == mean_distance(src, GtPoints, S)
        q == sample_order(S)
        srcs == [k \in 1..Cardinality(S) |-> src[q[k]]]
        trgs == [k \in 1..Cardinality(S) |-> kdtree_find(GtPoints, src[q[k]]).co]
    IN  /\ pc = "loop"
        /\ icp_continue(current_iter, args.max_iterations)
        /\ S # {}
        /\ ~best_alignment_reached(previous_error, mean)
        /\ mean_error' = mean
        /\ sampled' = Append(sampled, Cardinality(S))
        /\ previous_error' = mean
        /\ accepted' = Append(accepted, mean)
        /\ \E w \in BottomRight(R) :
              LET T == find_fit_transform(srcs, trgs, R, t, w)
              IN  IF T.ok
                  THEN /\ transforms' = Append(transforms, T.value)
                       /\ src' = transform(src, T.value)
                       /\ current_iter' = current_iter + 1
                       /\ UNCHANGED <<pc, outcome>>
                  ELSE /\ outcome' = T
                       /\ pc' = "raised"
                       /\ UNCHANGED <<transforms, src, current_iter>>
        /\ last_op' = Op("icp", Inf, 0, Identity)
        /\ UNCHANGED <<rest, cloud, filt, matrix_world, args, initial_alignment,
                       src_pc, samples>>

\* lines 323-324, then register_model applies the matrix to the placement
AlignReturn ==
    LET am == reduce_transforms(transforms)
    IN  /\ pc = "aggregate"
        /\ IF am.ok
           THEN /\ outcome' = Returned(icp_return(am.value, previous_error, mean_error))
                /\ matrix_world' = apply_registration_matrix(am.value, matrix_world)
                /\ pc' = "returned"
           ELSE /\ outcome' = am
                /\ pc' = "raised"
                /\ UNCHANGED matrix_world
        /\ last_op' = Op("align_return", Inf, 0, matrix_world)
        /\ UNCHANGED <<rest, cloud, filt, icp>>

Next ==
    \/ \E p \in UserPlacements : UserMove(p)
    \/ \E th \in Thresholds : FilterModel(th)
    \/ FilterModelClear
    \/ \E mi \in 0..MaxIter, rq \in 0..(Len(vertices) + 1), uf \in BOOLEAN :
          AlignStart(mi, rq, uf)
    \/ IcpLoopEnd
    \/ IcpSampleRaises
    \/ \E S \in Samplings : IcpBreak(S)
    \/ \E S \in Samplings, R \in FitRotations, t \in FitTranslations :
          IcpAccept(S, R, t)
    \/ AlignReturn

Spec == Init /\ [][Next]_vars

\* the filter operators and the user's moves alone
NextFilter ==
    \/ \E p \in UserPlacements : UserMove(p)
    \/ \E th \in Thresholds : FilterModel(th)
    \/ FilterModelClear

SpecFilter == Init /\ [][NextFilter]_vars

(* ------------------------------------------------------------ evaluation *)
\* a copy of the placement taken when the import first showed the model
object_matrix_of_import == Translation(center(vertices))

\* PointCloud._object_matrix and ReconCamera._object_matrix: show and draw
\* store the Matrix of the empty's matrix_world, which reads through to it
object_matrix == matrix_world

\* SFMFLOW_OT_evaluate_reconstruction.execute up to the result of
\* model.evaluate
Evaluate(scene, use_filtered_cloud) ==
    /\ pc \in {"idle", "returned"}
    /\ evaluation' =
          [use_filtered_cloud |-> use_filtered_cloud, scene |-> scene,
           outcome |-> model_evaluate(vertices, discard_vertices,
                           filter_distance, GtPoints, cameras,
                           MatMul(object_matrix, initial_centroid_matrix),
                           scene, use_filtered_cloud)]
    /\ last_op' = Op("evaluate", Inf, 0, Identity)
    /\ UNCHANGED <<extra, cameras, load, op, op2, manager, cloud, filt, matrix_world, pc, icp, outcome>>

InitEvaluate ==
    /\ InitCloud
    /\ cameras \in CameraSets
    /\ evaluation = NoEvaluation
    /\ InitLoaded
    /\ op = NoOperator
    /\ op2 = NoSecond
    /\ InitManaged
    /\ InitExtra

NextEvaluate ==
    \/ \E p \in UserPlacements : UserMove(p)
    \/ \E th \in Thresholds : FilterModel(th)
    \/ FilterModelClear
    \/ \E scene \in Scenes, uf \in BOOLEAN : Evaluate(scene, uf)

SpecEvaluate == InitEvaluate /\ [][NextEvaluate]_vars

(* ------------------------------------------------------ threaded operators *)
\* SFMFLOW_OT_align_reconstruction: invoke, the dialog and execute, which
\* starts the thread of heavy_load; model_found tells whether
\* get_model_by_uuid will find the model
AlignExecute(mode, matrix, custom, uf, mi, sp, found) ==
    /\ pc = "idle"
    /\ op.thread = "none"
    /\ op' = [kind |-> "align", alignment_mode |-> mode,
              alignment_matrix |-> matrix, use_custom_params |-> custom,
              use_filtered_cloud |-> uf, max_iterations |-> mi,
              samples_percentage |-> sp, model_found |-> found,
              known |-> TRUE, thread |-> "running", exit_code |-> None]
    /\ ui' = StartedUi
    /\ last_op' = Op("execute", Inf, 0, Identity)
    /\ UNCHANGED <<but_ui, cameras, evaluation, load, op2, manager, cloud, filt, matrix_world, pc,
                   icp, outcome>>

AlignThreadAt(position) ==
    /\ op.kind = "align"
    /\ op.thread = "running"
    /\ pc = position

\* heavy_load with model = None: the first use of model raises
HeavyLoadNoModel ==
    /\ AlignThreadAt("idle")
    /\ ~op.model_found
    /\ outcome' = Raised("AttributeError")
    /\ pc' = "raised"
    /\ last_op' = Op("heavy_load", Inf, 0, Identity)
    /\ UNCHANGED <<rest, cloud, filt, matrix_world, icp>>

\* heavy_load, cloud_align.matrix: model.apply_registration_matrix
HeavyLoadMatrix ==
    /\ AlignThreadAt("idle")
    /\ op.model_found
    /\ op.alignment_mode = "cloud_align.matrix"
    /\ matrix_world' = apply_registration_matrix(op.alignment_matrix, matrix_world)
    /\ pc' = "returned"
    /\ ui' = [ui EXCEPT !.progress_string = Some("Aligning model using matrix")]
    /\ last_op' = Op("heavy_load", Inf, 0, matrix_world)
    /\ UNCHANGED <<cameras, evaluation, load, op, op2, manager, but_ui, cloud,
                   filt, icp, outcome>>

\* heavy_load, cloud_align.auto: model.register_model up to the loop
HeavyLoadAuto ==
    LET call == register_model_call(op.use_custom_params, op.max_iterations,
                    op.samples_percentage, op.use_filtered_cloud)
        n == register_samples(Len(vertices), call.samples)
    IN  /\ AlignThreadAt("idle")
        /\ op.model_found
        /\ op.alignment_mode = "cloud_align.auto"
        /\ ui' = [ui EXCEPT !.progress_string = Some("Aligning model using ICP")]
        /\ register_model_start(register_max_iterations(call.max_iterations, n), n,
                                call.use_filtered_cloud)

\* the end of heavy_load: progress_string = msg, exit_code = 0
HeavyLoadEnd ==
    /\ AlignThreadAt("returned")
    /\ op' = [op EXCEPT !.exit_code = Some(0), !.thread = "ended"]
    /\ ui' = [ui EXCEPT !.progress_string = Some("msg"), !.ended_with = Some(0)]
    /\ last_op' = Op("thread_end", Inf, 0, Identity)
    /\ UNCHANGED <<but_ui, cameras, evaluation, load, op2, manager, cloud, filt, matrix_world, pc,
                   icp, outcome>>

\* an exception leaves heavy_load and ends the thread
HeavyLoadRaised ==
    /\ AlignThreadAt("raised")
    /\ op' = [op EXCEPT !.thread = "ended"]
    /\ last_op' = Op("thread_end", Inf, 0, Identity)
    /\ UNCHANGED <<extra, cameras, evaluation, load, op2, manager, cloud, filt, matrix_world, pc,
                   icp, outcome>>

\* SFMFLOW_OT_run_pipelines: invoke and execute
PipelinesExecute(known) ==
    /\ pc = "idle"
    /\ op.thread = "none"
    /\ op' = [NoOperator EXCEPT !.kind = "run_pipelines", !.known = known,
                                !.thread = "running"]
    /\ ui' = StartedUi
    /\ last_op' = Op("execute", Inf, 0, Identity)
    /\ UNCHANGED <<but_ui, cameras, evaluation, load, op2, manager, cloud, filt, matrix_world, pc,
                   icp, outcome>>

\* SFMFLOW_OT_run_pipelines.heavy_load, to the end of the thread
PipelinesHeavyLoad(env) ==
    LET r == run_pipelines_heavy_load(op.known, env)
    IN  /\ op.kind = "run_pipelines"
        /\ op.thread = "running"
        /\ op' = [op EXCEPT !.exit_code = r.exit_code, !.thread = "ended"]
        /\ ui' = [ui EXCEPT !.progress_string = r.progress_string,
                            !.ended_with = r.exit_code]
        /\ last_op' = Op("thread_end", Inf, 0, Identity)
        /\ UNCHANGED <<but_ui, cameras, evaluation, load, op2, manager, cloud, filt, matrix_world,
                       pc, icp, outcome>>

NextOperator ==
    \/ \E p \in UserPlacements : UserMove(p)
    \/ \E th \in Thresholds : FilterModel(th)
    \/ FilterModelClear
    \/ \E mode \in AlignmentModes, matrix \in AlignmentMatrices,
          custom \in BOOLEAN, uf \in BOOLEAN, mi \in IterationOptions,
          sp \in Percentages, found \in BOOLEAN :
            AlignExecute(mode, matrix, custom, uf, mi, sp, found)
    \/ HeavyLoadNoModel
    \/ HeavyLoadMatrix
    \/ HeavyLoadAuto
    \/ IcpLoopEnd
    \/ IcpSampleRaises
    \/ \E S \in Samplings : IcpBreak(S)
    \/ \E S \in Samplings, R \in FitRotations, t \in FitTranslations :
          IcpAccept(S, R, t)
    \/ AlignReturn
    \/ HeavyLoadEnd
    \/ HeavyLoadRaised
    \/ \E known \in BOOLEAN : PipelinesExecute(known)
    \/ \E env \in Environments : PipelinesHeavyLoad(env)

SpecOperator == Init /\ [][NextOperator]_vars

(* ------------------------------------------------------ the model's handler *)
\* ReconModel.show
Show(reference_raises) ==
    /\ \A h \in 1..MaxHandlers : draw.removes[h] < MaxRemoves
    /\ draw' = show(draw, reference_raises)
    /\ UNCHANGED <<but_draw, cameras, evaluation, load, op, op2, manager, cloud,
                   filt, matrix_world, pc, icp, outcome, last_op>>

\* a redraw of the 3D view calls the registered handler h
DrawHandler(h, visible) ==
    /\ h \in draw.registered
    /\ draw' = draw_handler(draw, visible)
    /\ UNCHANGED <<but_draw, cameras, evaluation, load, op, op2, manager, cloud,
                   filt, matrix_world, pc, icp, outcome, last_op>>

\* the manager removes the reconstruction: ReconModel.free
Free ==
    /\ draw' = free(draw)
    /\ UNCHANGED <<but_draw, cameras, evaluation, load, op, op2, manager, cloud,
                   filt, matrix_world, pc, icp, outcome, last_op>>

\* the user deletes the UI empty of the model
HandleDeleted ==
    /\ draw.ui = "alive"
    /\ draw' = [draw EXCEPT !.ui = "deleted"]
    /\ UNCHANGED <<but_draw, cameras, evaluation, load, op, op2, manager, cloud,
                   filt, matrix_world, pc, icp, outcome, last_op>>

NextDraw ==
    \/ \E p \in UserPlacements : UserMove(p)
    \/ \E reference_raises \in BOOLEAN : Show(reference_raises)
    \/ \E h \in 1..MaxHandlers, visible \in BOOLEAN : DrawHandler(h, visible)
    \/ Free
    \/ HandleDeleted

SpecDraw == Init /\ [][NextDraw]_vars

(* ------------------------------------------- evaluation after an alignment *)
\* the scene of the evaluation: frames 1 to 4, every frame
RenderedScene == [frame_start |-> 1, frame_end |-> 4, frame_step |-> 1]
\* the evaluate operator run between user moves, filters, redraws and the
\* threaded align operator
NextPlace ==
    \/ \E p \in UserPlacements : UserMove(p)
    \/ \E th \in Thresholds : FilterModel(th)
    \/ FilterModelClear
    \/ Show(FALSE)
    \/ \E h \in 1..MaxHandlers, visible \in BOOLEAN : DrawHandler(h, visible)
    \/ \E mode \in AlignmentModes, matrix \in AlignmentMatrices :
          AlignExecute(mode, matrix, TRUE, TRUE, MaxIter, 100, TRUE)
    \/ HeavyLoadMatrix
    \/ HeavyLoadAuto
    \/ IcpLoopEnd
    \/ \E S \in Samplings : IcpBreak(S)
    \/ \E S \in Samplings, R \in FitRotations, t \in FitTranslations :
          IcpAccept(S, R, t)
    \/ AlignReturn
    \/ HeavyLoadEnd
    \/ \E uf \in BOOLEAN : Evaluate(RenderedScene, uf)

SpecPlace == Init /\ [][NextPlace]_vars

(* ------------------------------------------------------ the scene callback *)
\* the user changes the scene: the camera is removed or set, selected or
\* not, the display of the camera pose is switched, the animation's end is
\* set; a scene without camera has no motion path and none that is selected
SceneEdited(camera, selected, is_show, frame_end) ==
    /\ callbacks' = [callbacks EXCEPT !.camera = camera,
                                      !.camera_selected = camera /\ selected,
                                      !.is_show_camera_pose = is_show,
                                      !.frame_end = frame_end,
                                      !.motion_path = IF camera THEN @ ELSE "none",
                                      !.last = "none"]
    /\ UNCHANGED <<but_callbacks, cameras, evaluation, load, op, op2, manager,
                   cloud, filt, matrix_world, pc, icp, outcome, last_op>>

\* depsgraph_update_post calls Callbacks.cam_pose_update
CamPoseUpdate ==
    /\ callbacks' = cam_pose_update(callbacks)
    /\ UNCHANGED <<but_callbacks, cameras, evaluation, load, op, op2, manager,
                   cloud, filt, matrix_world, pc, icp, outcome, last_op>>

NextCallbacks ==
    \/ \E camera \in BOOLEAN, selected \in BOOLEAN, is_show \in BOOLEAN,
          frame_end \in FrameEnds : SceneEdited(camera, selected, is_show, frame_end)
    \/ CamPoseUpdate

SpecCallbacks == Init /\ [][NextCallbacks]_vars

(* --------------------------------------------------------- the modal timer *)
\* a TIMER event of the timer that execute has added reaches modal
ModalTimer ==
    LET r == modal(op.exit_code, ui)
    IN  /\ ui.timer
        /\ op' = [op EXCEPT !.exit_code = r.exit_code]
        /\ ui' = r.ui
        /\ UNCHANGED <<but_ui, cameras, evaluation, load, op2, manager, cloud, filt,
                       matrix_world, pc, icp, outcome, last_op>>

NextModal ==
    \/ \E mode \in AlignmentModes, matrix \in AlignmentMatrices, custom \in BOOLEAN,
          mi \in IterationOptions, found \in BOOLEAN :
            AlignExecute(mode, matrix, custom, TRUE, mi, 100, found)
    \/ HeavyLoadNoModel
    \/ HeavyLoadMatrix
    \/ HeavyLoadAuto
    \/ IcpLoopEnd
    \/ \E S \in Samplings : IcpBreak(S)
    \/ \E S \in Samplings, R \in FitRotations, t \in FitTranslations :
          IcpAccept(S, R, t)
    \/ AlignReturn
    \/ HeavyLoadEnd
    \/ HeavyLoadRaised
    \/ \E known \in BOOLEAN : PipelinesExecute(known)
    \/ \E env \in Environments : PipelinesHeavyLoad(env)
    \/ ModalTimer

SpecModal == Init /\ [][NextModal]_vars

\* the timer fires every half second as long as it is registered
SpecModalFair == SpecModal /\ WF_vars(ModalTimer)

(* ------------------------------------------------- a second align operator *)
\* The operator is executed a second time, on the same model.  poll tests the
\* selection and ThreadedOperator.execute starts the thread: neither looks
\* at a thread that runs.  The second thread is followed from the line where
\* register_model reads matrix_world to the line where
\* apply_registration_matrix writes it, its loop in between being one step
\* that yields an aggregated matrix.
SecondAlignExecute ==
    /\ op.kind = "align"
    /\ op2.thread = "none"
    /\ op2' = [thread |-> "running",
               initial_alignment |->
                   initial_align_matrix(matrix_world, initial_centroid_matrix)]
    /\ UNCHANGED <<extra, cameras, evaluation, load, op, manager, cloud, filt, matrix_world,
                   pc, icp, outcome, last_op>>

SecondAlignReturn(R, t) ==
    /\ op2.thread = "running"
    /\ matrix_world' = apply_registration_matrix(<<R, t, 0, 1>>, matrix_world)
    /\ op2' = [op2 EXCEPT !.thread = "ended"]
    /\ UNCHANGED <<extra, cameras, evaluation, load, op, manager, cloud, filt, pc, icp,
                   outcome, last_op>>

NextTwoAligns ==
    \/ \E p \in UserPlacements : UserMove(p)
    \/ \E custom \in BOOLEAN, uf \in BOOLEAN, mi \in IterationOptions :
          AlignExecute("cloud_align.auto", Identity, custom, uf, mi, 100, TRUE)
    \/ HeavyLoadAuto
    \/ IcpLoopEnd
    \/ \E S \in Samplings : IcpBreak(S)
    \/ \E S \in Samplings, R \in FitRotations, t \in FitTranslations :
          IcpAccept(S, R, t)
    \/ AlignReturn
    \/ HeavyLoadEnd
    \/ SecondAlignExecute
    \/ \E R \in FitRotations, t \in FitTranslations : SecondAlignReturn(R, t)

SpecTwoAligns == Init /\ [][NextTwoAligns]_vars

(* --------------------------------------------------------- the fit alone *)
\* the paired points handed to the fit
FitPoints == {<<0, 2>>, <<2, 0>>, <<0, 1, 3>>, <<3, 1, 0>>, <<1, 1>>, <<4>>}
Signs == {1, -1}

\* lines 338-352 of PointCloud.find_fit_transform on the pairs srcs, trgs,
\* for the decomposition (u, vh) that np.linalg.svd returns
FitRotation(srcs, trgs, u1, u2, v1, v2) ==
    LET H == cross_covariance(srcs, trgs)
        u == <<u1, 0, 0, u2>>
        vh == <<v1, 0, 0, v2>>
    IN  /\ Len(srcs) = Len(trgs)
        /\ is_svd(H, u, vh)
        /\ fit' = [done |-> TRUE, src |-> srcs, trg |-> trgs,
                   first |-> rotation_of(u, vh),
                   returned |-> corrected_rotation(u, vh, HomogeneousSize)]
        /\ UNCHANGED <<cameras, evaluation, load, op, op2, manager, cloud, filt,
                       matrix_world, pc, icp, outcome, last_op, but_fit>>

NextFit ==
    \E srcs \in FitPoints, trgs \in FitPoints, u1 \in Signs, u2 \in Signs,
       v1 \in Signs, v2 \in Signs : FitRotation(srcs, trgs, u1, u2, v1, v2)

SpecFit == Init /\ [][NextFit]_vars

(* ------------------------------------------------------- register limits *)
\* lines 125-134 of ReconModel.register_model on a cloud of n points:
\* the samples and the iteration limit it hands to the alignment, for the
\* arguments max_iterations = mi and samples = sp; 0 is an argument that was
\* left out
RegisterModelLimits(n, mi, sp) ==
    /\ pc = "idle"
    /\ registration' =
          [done |-> TRUE, size |-> n, max_iterations_arg |-> mi,
           samples_arg |-> sp,
           samples |-> register_samples(n, sp),
           max_iterations |->
               register_max_iterations(mi, register_samples(n, sp))]
    /\ UNCHANGED <<cameras, evaluation, load, op, op2, manager, cloud, filt,
                   matrix_world, pc, icp, outcome, last_op, but_registration>>

NextRegister ==
    \E n \in CloudSizes, mi \in {0} \cup IterationOptions, sp \in {0} \cup Percentages :
        RegisterModelLimits(n, mi, sp)

SpecRegister == Init /\ [][NextRegister]_vars

(* ------------------------------------------------------ camera evaluation *)
\* ReconCamera.evaluate of the camera of frame f at position p, whose look-at
\* vector has the cosine cos_theta with the ground truth's
CameraEvaluate(f, p, cos_theta) ==
    /\ pc = "idle"
    /\ camera_result' =
          [done |-> TRUE, camera |-> Camera(f, p), cos_theta |-> cos_theta,
           outcome |-> camera_evaluate_lookat(Camera(f, p),
                           MatMul(object_matrix, initial_centroid_matrix),
                           cos_theta)]
    /\ UNCHANGED <<cameras, evaluation, load, op, op2, manager, cloud, filt,
                   matrix_world, pc, icp, outcome, last_op, but_camera_result>>

NextCamera ==
    \E f \in Frames, p \in CameraPositions, c \in Cosines : CameraEvaluate(f, p, c)

SpecCamera == Init /\ [][NextCamera]_vars

(* ---------------------------------------------------------------- import *)
\* the sizes of the clouds an importer allocates
MaxPoints == 3
\* what the rows of np.empty may hold before they are set
Uninitialized == {0, 9}
\* the positions the importer reads from the file
Positions == {0, 3, 6}

\* PointCloud.__init__: nothing is set, nothing is shown
InitLoad ==
    /\ point_count \in 0..MaxPoints
    /\ vertices \in [1..point_count -> Uninitialized]
    /\ discard_vertices = <<>>
    /\ filter_distance = Inf
    /\ last_point_set = -1
    /\ written = <<>>
    /\ add_point_outcome = Returned("None")
    /\ matrix_world = Identity
    /\ initial_centroid_matrix = Identity
    /\ pc = "idle"
    /\ args = NoArgs
    /\ initial_alignment = Identity
    /\ src_pc = <<>>
    /\ src = <<>>
    /\ samples = 0
    /\ current_iter = 0
    /\ previous_error = Inf
    /\ mean_error = Inf
    /\ transforms = <<>>
    /\ outcome = NoOutcome
    /\ accepted = <<>>
    /\ sampled = <<>>
    /\ last_op = Op("init", Inf, 0, Identity)
    /\ cameras = <<>>
    /\ evaluation = NoEvaluation
    /\ op = NoOperator
    /\ op2 = NoSecond
    /\ InitManager
    /\ InitExtra

\* the importer calls point_cloud.add_point(position, color)
AddPoint(position) ==
    LET r == add_point(point_count, last_point_set, vertices, position)
    IN  /\ add_point_outcome' = r.outcome
        /\ last_point_set' = r.last_point_set
        /\ vertices' = r.vertices
        /\ written' = IF r.outcome.ok THEN Append(written, r.last_point_set)
                      ELSE written
        /\ last_op' = Op("add_point", Inf, 0,
                         [point_count |-> point_count,
                          last_point_set |-> last_point_set,
                          vertices |-> vertices,
                          position |-> position])
        /\ UNCHANGED <<extra, point_count, cameras, evaluation, op, op2, manager, filt, matrix_world,
                       initial_centroid_matrix, pc, icp, outcome>>

NextLoad == \E position \in Positions : AddPoint(position)

SpecLoad == InitLoad /\ [][NextLoad]_vars

(* ---------------------------------------------------------------- manager *)
\* the reconstructions the user imports
MaxReconstructions == 3
\* the ground truth point clouds that are sampled, and None
GtInputs == {None, Some(<<>>), Some(<<2>>), Some(<<1, 6>>), Some(<<1, 6, 8>>)}

\* get_model_by_uuid as the thread of heavy_load calls it
\* (align_reconstruction.py line 194), up to the return of unload_deleted;
\* the calls of the main thread go on meanwhile
ThreadLookupStart(uuid) ==
    /\ lookup.thread_uuid = None
    /\ reconstructions' = unload_deleted(reconstructions)
    /\ lookup' = [lookup EXCEPT !.thread_uuid = Some(uuid)]
    /\ UNCHANGED <<but_lookup, cameras, evaluation, load, op, op2, gt_points,
                   gt_kdtree, cloud, filt, matrix_world, pc, icp, outcome, last_op>>

\* the loops of the thread's call and its return
ThreadLookupReturn ==
    /\ lookup.thread_uuid # None
    /\ lookup' = [lookup EXCEPT !.call = "get_model_by_uuid",
                                !.uuid = lookup.thread_uuid[1],
                                !.result = find_by_uuid(reconstructions,
                                                        lookup.thread_uuid[1]),
                                !.thread_uuid = None]
    /\ UNCHANGED <<but_lookup, cameras, evaluation, load, op, op2, manager,
                   cloud, filt, matrix_world, pc, icp, outcome, last_op>>

\* the models that are created over all imports, and those of one file
MaxModels == 3
MaxModelsPerFile == 2

\* ReconstructionsManager.set_gt_points
SetGtPoints(points) ==
    LET r == set_gt_points(points, gt_kdtree)
    IN  /\ reconstructions' = unload_deleted(reconstructions)
        /\ gt_points' = r.gt_points
        /\ gt_kdtree' = r.gt_kdtree
        /\ lookup' = [lookup EXCEPT !.call = "set_gt_points", !.result = None]
        /\ UNCHANGED <<but_lookup, cameras, evaluation, load, op, op2, cloud, filt,
                       matrix_world, pc, icp, outcome, last_op>>

\* ReconstructionsManager.add_reconstruction, for a reconstruction whose
\* file held n models
AddReconstruction(n) ==
    /\ Len(reconstructions) < MaxReconstructions
    /\ lookup.created + n <= MaxModels
    /\ reconstructions' =
          Append(unload_deleted(reconstructions),
                 [k \in 1..n |-> Model(lookup.created + k)])
    /\ lookup' = [lookup EXCEPT !.call = "add_reconstruction", !.result = None,
                                !.created = @ + n]
    /\ UNCHANGED <<but_lookup, cameras, evaluation, load, op, op2, gt_points,
                   gt_kdtree, cloud, filt, matrix_world, pc, icp, outcome, last_op>>

\* ReconModel._draw_handler: the UI handle of model j of reconstruction i is
\* gone, the model is flagged for removal
ModelRemoved(i, j) ==
    /\ i \in 1..Len(reconstructions)
    /\ j \in 1..Len(reconstructions[i])
    /\ ~reconstructions[i][j].is_removed
    /\ reconstructions' = [reconstructions EXCEPT ![i][j].is_removed = TRUE]
    /\ lookup' = [lookup EXCEPT !.call = "_draw_handler", !.result = None]
    /\ UNCHANGED <<but_lookup, cameras, evaluation, load, op, op2, gt_points,
                   gt_kdtree, cloud, filt, matrix_world, pc, icp, outcome, last_op>>

\* ReconstructionsManager.get_model_by_uuid
GetModelByUuid(uuid) ==
    LET r == get_model_by_uuid(reconstructions, uuid)
    IN  /\ reconstructions' = r.reconstructions
        /\ lookup' = [lookup EXCEPT !.call = "get_model_by_uuid", !.uuid = uuid,
                                    !.result = r.result]
        /\ UNCHANGED <<but_lookup, cameras, evaluation, load, op, op2, gt_points,
                       gt_kdtree, cloud, filt, matrix_world, pc, icp, outcome, last_op>>

\* the add-on is registered and nothing is imported: no cloud, no ground
\* truth
InitManagerOnly ==
    /\ InitLoad
    /\ point_count = 0

NextManager ==
    \/ \E points \in GtInputs : SetGtPoints(points)
    \/ \E n \in 0..MaxModelsPerFile : AddReconstruction(n)
    \/ \E i \in 1..MaxReconstructions, j \in 1..MaxModelsPerFile : ModelRemoved(i, j)
    \/ \E uuid \in 1..MaxModels : GetModelByUuid(uuid)
    \/ \E uuid \in 1..MaxModels : ThreadLookupStart(uuid)
    \/ ThreadLookupReturn

SpecManager == InitManagerOnly /\ [][NextManager]_vars


(* ================================================================ claims *)
Min(a, b) == IF a < b THEN a ELSE b

\* x after T_1, then T_2, ... applied one after the other
RECURSIVE ApplyInOrder(_, _)
ApplyInOrder(x, ts) ==
    IF ts = <<>> THEN x ELSE ApplyInOrder(transform_point(x, ts[1]), Tail(ts))

\* T_n . T_(n-1) . ... . T_1 for a non-empty list
RECURSIVE ChronologicalProduct(_)
ChronologicalProduct(ts) ==
    IF Len(ts) = 1 THEN ts[1]
    ELSE MatMul(ts[Len(ts)], ChronologicalProduct(SubSeq(ts, 1, Len(ts) - 1)))

\* the last iteration of the loop ended in the break of line 310
LeftByBreak == pc \in {"aggregate", "returned"} /\ Len(sampled) > current_iter

\* distance of x to the nearest ground-truth point
NearestDistance(x) ==
    CHOOSE d \in {Abs(GtPoints[j] - x) : j \in 1..Len(GtPoints)} :
        \A j \in 1..Len(GtPoints) : d <= Abs(GtPoints[j] - x)

\* C1: with max_iterations >= 1 the loop body runs at most max_iterations
\* times and records at most max_iterations transforms; the loop is left
\* by the plateau stop or by the iteration counter.
C1_LoopBounded ==
    (pc # "idle" /\ args.max_iterations >= 1) =>
        /\ Len(sampled) <= args.max_iterations
        /\ current_iter <= args.max_iterations
        /\ Len(transforms) <= args.max_iterations
        /\ pc = "aggregate" =>
              \/ current_iter = args.max_iterations
              \/ best_alignment_reached(previous_error, mean_error)

C1_Witness ==
    /\ pc = "aggregate"
    /\ args.max_iterations = MaxIter
    /\ Len(transforms) = MaxIter

\* C2: the values assigned to previous_error, from +infinity on, never
\* increase, and the returned error is at most each of them.
C2_ErrorsNonIncreasing ==
    /\ \A i, j \in 1..Len(accepted) : i < j => FLeq(accepted[j], accepted[i])
    /\ (pc = "returned" /\ outcome.ok) =>
          \A i \in 1..Len(accepted) : FLeq(outcome.value.error, accepted[i])

C2_Witness ==
    /\ pc = "returned"
    /\ Len(accepted) >= 3
    /\ FLess(outcome.value.error, accepted[2])

\* C3: an iteration whose improvement is below 0.0001 fits and records
\* nothing, and the call returns the last accepted error, not the error of
\* that iteration; recorded transforms and accepted errors stay equal in
\* number.
C3_PlateauStop ==
    /\ pc \in {"loop", "aggregate", "returned"} =>
          Len(transforms) = Len(accepted) - 1
    /\ LeftByBreak =>
          /\ FLess(FSub(previous_error, mean_error), Epsilon)
          /\ Len(transforms) = Len(sampled) - 1
    /\ pc = "returned" =>
          /\ outcome.value.error = accepted[Len(accepted)]
          /\ outcome.value.error = previous_error

C3_Witness ==
    /\ pc = "returned"
    /\ LeftByBreak
    /\ Len(transforms) >= 1
    /\ FLess(mean_error, outcome.value.error)

\* C4: the aggregated matrix is T_n . ... . T_1: it maps a point as the
\* recorded transforms do when applied in the order they were computed.
C4_AggregateOrder ==
    pc = "returned" =>
        /\ outcome.value.matrix = ChronologicalProduct(transforms)
        /\ \A x \in 0..6 :
              transform_point(x, outcome.value.matrix) = ApplyInOrder(x, transforms)

C4_Witness ==
    /\ pc = "returned"
    /\ Len(transforms) >= 2
    /\ MatMul(transforms[1], transforms[2]) # MatMul(transforms[2], transforms[1])

\* C5 as stated: the returned transform, applied to an original source
\* point, gives point -> initial_transform -> T_1 -> ... -> T_last.
C5_ReturnedIncludesInitial ==
    pc = "returned" =>
        \A i \in 1..Len(src_pc) :
            transform_point(src_pc[i], outcome.value.matrix)
              = ApplyInOrder(transform_point(src_pc[i], initial_alignment), transforms)

\* C5 amended: the returned transform is the product of the recorded
\* transforms alone; the chain from an original point is the returned
\* transform applied after initial_alignment, which is what the working
\* copy holds and what the placement becomes when register_model
\* multiplies matrix_world on the left by the returned matrix.
C5_ChainThroughPlacement ==
    pc = "returned" =>
        /\ \A i \in 1..Len(src_pc) :
              /\ transform_point(transform_point(src_pc[i], initial_alignment),
                                 outcome.value.matrix)
                   = ApplyInOrder(transform_point(src_pc[i], initial_alignment),
                                  transforms)
              /\ src[i] = ApplyInOrder(transform_point(src_pc[i], initial_alignment),
                                       transforms)
        /\ \A i \in 1..Len(vertices) :
              transform_point(vertices[i],
                              initial_align_matrix(matrix_world, initial_centroid_matrix))
                = transform_point(
                      transform_point(vertices[i],
                          initial_align_matrix(last_op.before, initial_centroid_matrix)),
                      outcome.value.matrix)

C5_Witness ==
    /\ pc = "returned"
    /\ initial_alignment # Identity
    /\ Len(transforms) >= 2
    /\ \E i \in 1..Len(src_pc) :
          transform_point(src_pc[i], outcome.value.matrix) # src[i]

\* C6: a call with max_iterations = 0 returns, with initial_transform as
\* the transform and an infinite error.
C6_ZeroIterationsReturns ==
    (pc \in {"returned", "raised"} /\ args.max_iterations = 0) =>
        /\ outcome.ok
        /\ outcome.value.matrix = initial_alignment
        /\ outcome.value.error = Inf

\* C7 as stated: every iteration samples min(sample_count, available)
\* points.
C7_SampledIsMin ==
    pc # "idle" =>
        \A i \in 1..Len(sampled) : sampled[i] = Min(args.samples, Len(src))

\* C7 amended: a sample_count above the available points, or one <= 0, is
\* replaced by the available points; every iteration samples
\* min(sample_count, available) points when sample_count >= 1 and all the
\* available points when sample_count <= 0.
C7_SampledIsClamped ==
    pc # "idle" =>
        /\ samples = IF args.samples >= 1
                     THEN Min(args.samples, Len(src_pc)) ELSE Len(src_pc)
        /\ \A i \in 1..Len(sampled) : sampled[i] = samples

C7_Witness ==
    /\ pc = "returned"
    /\ Len(src_pc) >= 1
    /\ args.samples > Len(src_pc)
    /\ Len(sampled) >= 2
    /\ sampled[1] = Len(src_pc)

\* the fit has run on fewer than three correspondences
FitRanBelowThree == pc # "idle" /\ samples < 3 /\ Len(accepted) >= 2

C9_FilterExact ==
    last_op.name = "filter" =>
        /\ SeqToSet(discard_vertices)
             = {i \in 1..Len(vertices) :
                   LET d == NearestDistance(transform_point(vertices[i],
                                MatMul(matrix_world, initial_centroid_matrix)))
                   IN  last_op.threshold[1] < d * last_op.threshold[2]}
        /\ Cardinality(SeqToSet(discard_vertices)) = Len(discard_vertices)
        /\ filter_distance = last_op.threshold

C9_Witness ==
    /\ last_op.name = "filter"
    /\ discard_vertices # <<>>
    /\ \E i \in SeqToSet(last_op.before) : i \notin SeqToSet(discard_vertices)

\* C10: a second filter call right after a first one, with the same
\* threshold, leaves the discarded list and the threshold of the first.
C10_FilterIdempotent ==
    (last_op.name = "filter" /\ last_op.streak = 2) =>
        /\ discard_vertices = last_op.before
        /\ filter_distance = last_op.threshold

C10_Witness ==
    /\ last_op.name = "filter"
    /\ last_op.streak = 2
    /\ discard_vertices # <<>>
    /\ Len(discard_vertices) < Len(vertices)

\* what a filter call with threshold th would discard in the current state
WouldDiscard(th) ==
    SeqToSet(filter_point_cloud(vertices, discard_vertices, GtPoints,
                 initial_align_matrix(matrix_world, initial_centroid_matrix),
                 th).discard_vertices)

\* C11: for one cloud, ground truth and alignment, a larger threshold
\* discards a subset of what a smaller one discards: this holds for any two
\* thresholds in every state, and in particular between the filter that has
\* just run and the filter that would run next.
C11_FilterMonotone ==
    /\ \A t1, t2 \in Thresholds :
          FLeq(t1, t2) => WouldDiscard(t2) \subseteq WouldDiscard(t1)
    /\ last_op.name = "filter" =>
          \A t \in Thresholds :
              /\ FLeq(last_op.threshold, t)
                    => WouldDiscard(t) \subseteq SeqToSet(discard_vertices)
              /\ FLeq(t, last_op.threshold)
                    => SeqToSet(discard_vertices) \subseteq WouldDiscard(t)

C11_Witness ==
    /\ last_op.name = "filter"
    /\ \E t \in Thresholds :
          /\ FLess(last_op.threshold, t)
          /\ WouldDiscard(t) # {}
          /\ WouldDiscard(t) # SeqToSet(discard_vertices)

\* C12: a clear leaves the discarded list empty and the threshold infinite,
\* and in every state an infinite threshold comes with an empty discarded
\* list.
C12_ClearResetsBoth ==
    /\ last_op.name = "clear" =>
          discard_vertices = <<>> /\ filter_distance = Inf
    /\ filter_distance = Inf => discard_vertices = <<>>

C12_Witness ==
    /\ last_op.name = "clear"
    /\ last_op.before # <<>>
    /\ filter_distance = Inf

\* the distances of all the points of the cloud under the current placement
AllDistances ==
    [i \in 1..Len(vertices) |->
        NearestDistance(transform_point(vertices[i],
            MatMul(matrix_world, initial_centroid_matrix)))]

\* C13: an evaluation with use_filtered_cloud false measures every point of
\* the cloud whatever the filter state: the used size is the full size, no
\* point is counted as discarded, the ratio is 1 and the reported threshold
\* is infinite; when it fails, it fails in the camera part.
C13_UnfilteredIgnoresFilter ==
    (last_op.name = "evaluate" /\ ~evaluation.use_filtered_cloud) =>
        IF evaluation.outcome.ok
        THEN LET r == evaluation.outcome.value.pc
             IN  /\ r.full_cloud_size = Len(vertices)
                 /\ r.used_cloud_size = Len(vertices)
                 /\ r.discarded_points = 0
                 /\ r.used_cloud_size_percent[1] = r.used_cloud_size_percent[2]
                 /\ r.filter_threshold = Inf
                 /\ r.dist_mean = <<SeqSum(AllDistances), Len(vertices)>>
                 /\ \A i \in 1..Len(vertices) :
                       r.dist_min <= AllDistances[i] /\ AllDistances[i] <= r.dist_max
        ELSE cameras = <<>> \/ gt_camera_count(evaluation.scene) = 0

C13_Witness ==
    /\ last_op.name = "evaluate"
    /\ ~evaluation.use_filtered_cloud
    /\ evaluation.outcome.ok
    /\ discard_vertices # <<>>
    /\ filter_distance # Inf
    /\ evaluation.outcome.value.pc.dist_mean[1] > 0

\* C14: a filter that discards every point completes and stores its result;
\* an evaluation of the filtered cloud that follows raises the error of an
\* empty data set and returns no report, so no report with a mean of 0.
C14_EmptyFilteredCloudRaises ==
    /\ (last_op.name = "filter" /\ Len(discard_vertices) = Len(vertices)) =>
          filter_distance = last_op.threshold
    /\ (/\ last_op.name = "evaluate"
        /\ evaluation.use_filtered_cloud
        /\ Len(discard_vertices) = Len(vertices)) =>
          /\ ~evaluation.outcome.ok
          /\ evaluation.outcome.error = "StatisticsError"

C14_Witness ==
    /\ last_op.name = "evaluate"
    /\ evaluation.use_filtered_cloud
    /\ Len(discard_vertices) = Len(vertices)
    /\ cameras # <<>>
    /\ ~evaluation.outcome.ok

\* C15: with no reconstructed camera the evaluation raises the error of an
\* empty data set: it returns no statistics and does not divide by zero,
\* also when the scene has no ground truth camera.
C15_NoCameraRaises ==
    (last_op.name = "evaluate" /\ cameras = <<>>) =>
        /\ ~evaluation.outcome.ok
        /\ evaluation.outcome.error = "StatisticsError"

C15_Witness ==
    /\ last_op.name = "evaluate"
    /\ cameras = <<>>
    /\ ~evaluation.use_filtered_cloud
    /\ gt_camera_count(evaluation.scene) = 0
    /\ ~evaluation.outcome.ok

\* C16: a cloud of N points takes N add_point calls, which fill the rows
\* 0..N-1 in order and each once; any further call raises RuntimeError and
\* leaves point_count, the fill position and the stored points as they were.
C16_AddPointFillsInOrder ==
    /\ point_count = Len(vertices)
    /\ last_point_set + 1 <= point_count
    /\ Len(written) = last_point_set + 1
    /\ \A k \in 1..Len(written) : written[k] = k - 1
    /\ last_op.name = "add_point" =>
          LET b == last_op.before
          IN  /\ point_count = b.point_count
              /\ IF b.last_point_set + 1 < b.point_count
                 THEN /\ add_point_outcome.ok
                      /\ last_point_set = b.last_point_set + 1
                      /\ vertices[last_point_set + 1] = b.position
                      /\ \A i \in 1..Len(vertices) :
                            i # last_point_set + 1 => vertices[i] = b.vertices[i]
                 ELSE /\ ~add_point_outcome.ok
                      /\ add_point_outcome.error = "RuntimeError"
                      /\ last_point_set = b.last_point_set
                      /\ vertices = b.vertices

C16_Witness ==
    /\ last_op.name = "add_point"
    /\ point_count >= 2
    /\ Len(written) = point_count
    /\ ~add_point_outcome.ok

\* C17: in the ICP mode of the align operator the working set of the call
\* is the one the use_filtered_cloud option asks for, the filtered cloud
\* when it is checked and the full cloud when it is not, with and without
\* use_custom_params.
C17_OptionDecidesWorkingSet ==
    (/\ op.kind = "align"
     /\ op.model_found
     /\ op.alignment_mode = "cloud_align.auto"
     /\ pc # "idle") =>
        src_pc = IF op.use_filtered_cloud
                 THEN vertices_filtered(vertices, discard_vertices)
                 ELSE vertices

\* C18: when the thread of a threaded operator has ended, whatever the path
\* heavy_load took, exit_code is set.
C18_ExitCodeSetAtThreadEnd ==
    op.thread = "ended" => op.exit_code # None

\* C19: two align threads never run at the same time on one model: a second
\* one is not started while the first one runs.
C19_NoConcurrentAlign ==
    ~(op.kind = "align" /\ op.thread = "running" /\ op2.thread = "running")

\* C20: the KD-tree of the manager is the index of its current ground truth
\* points, and there is none when the points are None, also after
\* set_gt_points(None).
C20_KdTreeOfCurrentPoints ==
    gt_kdtree = IF gt_points = None THEN None
                ELSE Some(build_kdtree(gt_points[1]))

\* C21: has_filtered_cloud, which enables the clear operator, is true
\* exactly when a threshold is stored, that is when a filter call was made
\* since the construction or the last clear.
C21_HasFilterIffThreshold ==
    has_filtered_cloud(discard_vertices) <=> (filter_distance # Inf)

\* C22: when the rotation first computed by the fit on homogeneous points
\* is improper, the matrix it goes on with has a proper rotation block and
\* a bottom-right entry of +1.
C22_ReflectionCorrected ==
    (fit.done /\ det(fit.first) < 0) =>
        /\ fit.returned[1] = 1
        /\ fit.returned[4] = 1

\* C23: whenever a camera was evaluated with a cosine that lies within the
\* rounding error of [-1, 1], on either side, the evaluation returned and the
\* look-at angle is in [0, 180] degrees.
C23_CosineClamped ==
    (/\ camera_result.done
     /\ camera_result.cos_theta >= -CosOne - RoundingError
     /\ camera_result.cos_theta <= CosOne + RoundingError)
        => /\ camera_result.outcome.ok
           /\ camera_result.outcome.value.lookat_difference_deg \in 0..180

\* the frames frame_start, frame_start + frame_step, ... up to frame_end
RenderedFrames(scene) ==
    {f \in scene.frame_start..scene.frame_end :
        (f - scene.frame_start) % scene.frame_step = 0}

\* C24: for every frame range with frame_start <= frame_end and
\* frame_step >= 1 an evaluation never fails on the division by the camera
\* count, and the camera_count it reports is the number of rendered frames,
\* which is at least 1.
C24_CameraCountIsFrameCount ==
    (/\ evaluation.outcome # Raised("none")
     /\ evaluation.scene.frame_start <= evaluation.scene.frame_end
     /\ evaluation.scene.frame_step >= 1)
        => /\ evaluation.outcome # Raised("ZeroDivisionError")
           /\ evaluation.outcome.ok =>
                 /\ evaluation.outcome.value.cam.camera_count >= 1
                 /\ evaluation.outcome.value.cam.camera_count =
                        Cardinality(RenderedFrames(evaluation.scene))

\* C25: whenever register_model was called without max_iterations, the
\* iteration limit it hands on is 1% of the size of the point cloud and at
\* least 100, whatever the size.
C25_DefaultIterations ==
    (registration.done /\ registration.max_iterations_arg = 0)
        => registration.max_iterations = Max(100, registration.size \div 100)

\* the handler has removed the timer and cleared the status
ModalCleaned ==
    /\ ~ui.timer
    /\ ui.status_text = ""
    /\ ui.progress_string = None
    /\ op.exit_code = None

ModalReportsOnce ==
    /\ ui.reports <= 1
    /\ ui.reports = 1 => ui.ended_with \notin {None, Some(0)}
    /\ ui.clears > 0 => /\ ui.ended_with # None
                        /\ ui.reports = IF ui.ended_with = Some(0) THEN 0 ELSE 1

\* C26: once heavy_load has set exit_code, the TIMER events lead to the state
\* where the timer is removed, the status text is empty and exit_code and
\* progress_string are None again; the error of a non-zero exit code is
\* reported once and only then, and the status is never cleared before
\* heavy_load has set exit_code.
C26_ModalCleansUp ==
    /\ []ModalReportsOnce
    /\ (op.exit_code # None) ~> ModalCleaned

\* the status was cleared after a run that ended with an error
C26_Witness ==
    /\ ModalCleaned
    /\ ui.clears = 1
    /\ ui.reports = 1
    /\ ui.ended_with = Some(-1)

\* no registered reconstruction holds a flagged model or no model at all
Unloaded(recons) ==
    \A i \in 1..Len(recons) :
        /\ recons[i] # <<>>
        /\ \A j \in 1..Len(recons[i]) : ~recons[i][j].is_removed

\* C27: what get_model_by_uuid has returned is None or a model with the
\* uuid asked for whose is_removed flag is not set, and when the call made
\* last is one that runs unload_deleted, every registered reconstruction has
\* a model and none that is flagged.
C27_LookupNeverRemoved ==
    /\ (lookup.call = "get_model_by_uuid" /\ lookup.result # None) =>
          /\ lookup.result[1].uuid = lookup.uuid
          /\ ~lookup.result[1].is_removed
    /\ lookup.call \in {"get_model_by_uuid", "set_gt_points", "add_reconstruction"}
          => Unloaded(reconstructions)

\* C28: at most one draw handler of the model is registered, no handler
\* has been handed to draw_handler_remove more than once, and when the UI
\* handle is gone and no handler is left to notice it, a model that was not
\* freed is flagged is_removed.
C28_OneHandlerRemovedOnce ==
    /\ Cardinality(draw.registered) <= 1
    /\ \A h \in 1..MaxHandlers : draw.removes[h] <= 1
    /\ (draw.ui # "alive" /\ draw.registered = {} /\ ~draw.freed) => draw.is_removed

\* C29: whenever cam_pose_update has returned, with or without a camera in
\* the scene, the flag _is_cam_pose_updating is False.
C29_FlagResetOnReturn ==
    callbacks.last # "none" => ~callbacks.is_cam_pose_updating

====
